---- MODULE Spec2Model ----
\* Model of baseline.hpp: the record type (parsing of a source line, its
\* (page, time) order, cereal serialization) and baseline_db, a vector of
\* records kept sorted, with build_index, load, save_as, range, top_k_range,
\* print and print_all.
\*
\* Text is modelled as a sequence of one-character strings, a time_point as
\* the number of hours since the epoch (every time the program builds comes
\* from a whole hour, the time zone is taken to be UTC), and a size_t as four
\* 16-bit limbs, most significant first, so that the int -> size_t conversion
\* keeps its 64-bit wrap-around.
EXTENDS Integers, Sequences, FiniteSets, TLC

VARIABLES
  m_db,         \* baseline_db::m_db, the vector of records
  fs,           \* the serialized files: file name -> content (<<>>: no file)
  ret,          \* the call just made: its arguments and what it returned or
                \* threw; "idle" once the caller has let go of the result
  established   \* a build_index or load has completed and left m_db sorted

vars == <<m_db, fs, ret, established>>

\* ---------------------------------------------------------------- bounds
MaxLen == 2      \* largest number of records a store holds
MaxLines == 2    \* largest number of lines a source file holds
MaxK == 2        \* largest k passed to top_k_range

\* --------------------------------------------------- library constants
npos == -1                \* std::string::npos; npos + 1 wraps to 0
INT_MAX == 2147483647     \* range of the int std::stoi returns
LimbBase == 65536         \* one limb of a size_t: 16 bits, 4 limbs = 64 bits

Min(S) == CHOOSE x \in S : \A y \in S : x <= y

\* ------------------------------------------------------------ characters
Tab == "\t"
DigitChars == {"0", "1", "2", "3", "4", "5", "6", "7", "8", "9"}
DigitVal(c) ==
  CASE c = "0" -> 0 [] c = "1" -> 1 [] c = "2" -> 2 [] c = "3" -> 3
    [] c = "4" -> 4 [] c = "5" -> 5 [] c = "6" -> 6 [] c = "7" -> 7
    [] c = "8" -> 8 [] c = "9" -> 9
\* the character codes std::string's operator< compares
CharCode(c) ==
  CASE c = Tab -> 9 [] c = " " -> 32 [] c = "+" -> 43 [] c = "-" -> 45
    [] c \in DigitChars -> 48 + DigitVal(c)
    [] c = "A" -> 65 [] c = "B" -> 66 [] c = "C" -> 67
    [] c = "a" -> 97 [] c = "b" -> 98 [] c = "c" -> 99
    [] c = "d" -> 100 [] c = "e" -> 101 [] c = "i" -> 105
    [] c = "l" -> 108 [] c = "n" -> 110 [] c = "x" -> 120
isspace(c) == c \in {" ", Tab}

\* std::string operator< : lexicographic on character codes
RECURSIVE string_less(_, _)
string_less(a, b) ==
  IF b = <<>> THEN FALSE
  ELSE IF a = <<>> THEN TRUE
  ELSE IF CharCode(Head(a)) < CharCode(Head(b)) THEN TRUE
  ELSE IF CharCode(Head(b)) < CharCode(Head(a)) THEN FALSE
  ELSE string_less(Tail(a), Tail(b))

\* std::string::find(c, pos): 0-based position of the first c at or after pos
find(s, c, pos) ==
  LET hits == {i \in pos..(Len(s) - 1) : s[i + 1] = c}
  IN IF hits = {} THEN npos ELSE Min(hits)

\* std::string::substr(pos, count): count is a size_t, so a negative count
\* (npos, or npos - n1 - 1) is a huge one and the result runs to the end
substr(s, pos, count) ==
  LET n == IF count < 0 \/ pos + count > Len(s) THEN Len(s) - pos ELSE count
  IN SubSeq(s, pos + 1, pos + n)

\* ----------------------------------------------------------- std::stoi
\* the digits at the start of s, as far as they go
RECURSIVE LeadingDigits(_)
LeadingDigits(s) ==
  IF s = <<>> \/ Head(s) \notin DigitChars THEN <<>>
  ELSE <<Head(s)>> \o LeadingDigits(Tail(s))

RECURSIVE SkipSpace(_)
SkipSpace(s) == IF s # <<>> /\ isspace(Head(s)) THEN SkipSpace(Tail(s)) ELSE s

\* value of a digit string, or -1 once it exceeds INT_MAX
RECURSIVE DigitsValue(_, _)
DigitsValue(ds, acc) ==
  IF ds = <<>> THEN acc
  ELSE IF acc > (INT_MAX - DigitVal(Head(ds))) \div 10 THEN -1
  ELSE DigitsValue(Tail(ds), acc * 10 + DigitVal(Head(ds)))

\* std::stoi(str): skips white space, takes an optional sign and the longest
\* run of digits, ignores what follows; std::invalid_argument without a
\* digit, std::out_of_range beyond int
stoi(str) ==
  LET s1 == SkipSpace(str)
      signed == s1 # <<>> /\ Head(s1) \in {"+", "-"}
      neg == s1 # <<>> /\ Head(s1) = "-"
      ds == LeadingDigits(IF signed THEN Tail(s1) ELSE s1)
      mag == DigitsValue(ds, 0)
  IN IF ds = <<>> THEN [err |-> "ParseError", val |-> 0]
     ELSE IF mag < 0 THEN [err |-> "ParseError", val |-> 0]
     ELSE [err |-> "none", val |-> IF neg THEN 0 - mag ELSE mag]

\* the conversion int -> size_t of `counter = std::stoi(...)`: the value
\* modulo 2^64, as four 16-bit limbs (floor division extends the sign)
to_size_t(n) ==
  LET q1 == n \div LimbBase
      q2 == q1 \div LimbBase
      q3 == q2 \div LimbBase
  IN <<q3 % LimbBase, q2 % LimbBase, q1 % LimbBase, n % LimbBase>>

\* ------------------------------------------- record::string_to_time_point
\* one numeric conversion of std::get_time: at least one and at most `width`
\* digits at 0-based position pos
ReadNum(s, pos, width) ==
  LET ds == LeadingDigits(substr(s, pos, width))
  IN [ok |-> ds # <<>>, val |-> DigitsValue(ds, 0), next |-> pos + Len(ds)]

IsLeap(y) == (y % 4 = 0 /\ y % 100 # 0) \/ y % 400 = 0
DaysBeforeMonth(m, y) ==
  LET cum == <<0, 31, 59, 90, 120, 151, 181, 212, 243, 273, 304, 334>>
  IN cum[m] + (IF m > 2 /\ IsLeap(y) THEN 1 ELSE 0)
\* days from 1970-01-01 to January 1st of year y
DaysBeforeYear(y) ==
  LET p == y - 1
  IN 365 * (y - 1970) + (p \div 4 - 1969 \div 4) - (p \div 100 - 1969 \div 100)
       + (p \div 400 - 1969 \div 400)

\* std::mktime + from_time_t, in hours: a day past the end of its month
\* carries into the next month
mktime(y, m, d, h) ==
  (DaysBeforeYear(y) + DaysBeforeMonth(m, y) + (d - 1)) * 24 + h

\* get_time with "%Y%m%d-%H": year, month, day, a literal '-', hour; text
\* after the hour is not read; failbit gives std::invalid_argument (white
\* space in front of a field is left out: no text of the model has any)
string_to_time_point(source) ==
  LET Y == ReadNum(source, 0, 4)
      M == ReadNum(source, Y.next, 2)
      D == ReadNum(source, M.next, 2)
      dash == D.next < Len(source) /\ source[D.next + 1] = "-"
      H == ReadNum(source, D.next + 1, 2)
      ok == /\ Y.ok
            /\ M.ok /\ M.val \in 1..12
            /\ D.ok /\ D.val \in 1..31
            /\ dash
            /\ H.ok /\ H.val \in 0..23
  IN IF ok THEN [err |-> "none", val |-> mktime(Y.val, M.val, D.val, H.val)]
     ELSE [err |-> "ParseError", val |-> 0]

\* --------------------------------------------------------------- record
\* record::record(const string& source_line)
record(source_line) ==
  LET n1 == find(source_line, Tab, 0)
      n2 == find(source_line, Tab, n1 + 1)
      time == string_to_time_point(substr(source_line, 0, n1))
      page == substr(source_line, n1 + 1, n2 - n1 - 1)
      counter == stoi(substr(source_line, n2 + 1, npos))
  IN IF time.err # "none" THEN [err |-> time.err]
     ELSE IF counter.err # "none" THEN [err |-> counter.err]
     ELSE [err |-> "none",
           rec |-> [time |-> time.val, page |-> page,
                    counter |-> to_size_t(counter.val)]]

\* record::operator< : std::tie(page, time) < std::tie(x.page, x.time)
record_less(r, x) ==
  \/ string_less(r.page, x.page)
  \/ (~string_less(x.page, r.page) /\ r.time < x.time)

\* record::compare_page
compare_page(r1, r2) == string_less(r1.page, r2.page)

\* record::record() : the empty record
empty_record == [time |-> 0, page |-> <<>>, counter |-> <<0, 0, 0, 0>>]

\* ------------------------------------------------------------ std::sort
is_sorted(s) == \A i \in 1..(Len(s) - 1) : ~record_less(s[i + 1], s[i])

\* std::sort with operator< : the result is a sorted permutation of the
\* input; the order of records that compare equal is unspecified (the sort
\* is not stable), so every sorted permutation is a possible outcome
std_sort(s) ==
  {q \in {[i \in 1..Len(s) |-> s[p[i]]] : p \in Permutations(1..Len(s))} :
     is_sorted(q)}

\* ---------------------------------------- std::equal_range on iterators
\* iterators are 0-based offsets into the vector v
RECURSIVE lower_bound(_, _, _, _)
lower_bound(v, first, len, val) ==
  IF len <= 0 THEN first
  ELSE LET half == len \div 2
           middle == first + half
       IN IF compare_page(v[middle + 1], val)
          THEN lower_bound(v, middle + 1, len - half - 1, val)
          ELSE lower_bound(v, first, half, val)

RECURSIVE upper_bound(_, _, _, _)
upper_bound(v, first, len, val) ==
  IF len <= 0 THEN first
  ELSE LET half == len \div 2
           middle == first + half
       IN IF compare_page(val, v[middle + 1])
          THEN upper_bound(v, first, half, val)
          ELSE upper_bound(v, middle + 1, len - half - 1, val)

RECURSIVE equal_range(_, _, _, _)
equal_range(v, first, len, val) ==
  IF len <= 0 THEN <<first, first>>
  ELSE LET half == len \div 2
           middle == first + half
       IN IF compare_page(v[middle + 1], val)
          THEN equal_range(v, middle + 1, len - half - 1, val)
          ELSE IF compare_page(val, v[middle + 1])
          THEN equal_range(v, first, half, val)
          ELSE <<lower_bound(v, first, half, val),
                 upper_bound(v, middle + 1, first + len - (middle + 1), val)>>

\* baseline_db::range_of
range_of(db, page) ==
  LET dummy == [empty_record EXCEPT !.page = page]
  IN equal_range(db, 0, Len(db), dummy)

\* ------------------------------------------------------------- queries
\* the loop of range with the window open at its lower end
RECURSIVE filter_time_open(_, _, _, _, _)
filter_time_open(db, it, second, time1, time2) ==
  IF ~(it < second) THEN <<>>
  ELSE (IF time1 < db[it + 1].time /\ db[it + 1].time <= time2
        THEN <<db[it + 1]>> ELSE <<>>)
       \o filter_time_open(db, it + 1, second, time1, time2)

\* the loop of range: the records at offsets first..second-1 whose time is
\* in [time1, time2], in that order
RECURSIVE filter_time(_, _, _, _, _)
filter_time(db, it, second, time1, time2) ==
  IF ~(it < second) THEN <<>>
  ELSE (IF time1 <= db[it + 1].time /\ db[it + 1].time <= time2
        THEN <<db[it + 1]>> ELSE <<>>)
       \o filter_time(db, it + 1, second, time1, time2)

\* range without the test of the interval
range_unchecked(db, page, time1, time2) ==
  LET r == range_of(db, page)
  IN [err |-> "none", val |-> filter_time(db, r[1], r[2], time1, time2)]

\* baseline_db::range (time_point overload)
range(db, page, time1, time2) ==
  IF time1 <= time2
  THEN LET r == range_of(db, page)
       IN [err |-> "none", val |-> filter_time(db, r[1], r[2], time1, time2)]
  ELSE [err |-> "InvalidArgument", val |-> <<>>]

\* the pop_back loop of top_k_range
RECURSIVE pop_to(_, _)
pop_to(retval, k) ==
  IF Len(retval) > k THEN pop_to(SubSeq(retval, 1, Len(retval) - 1), k)
  ELSE retval

\* baseline_db::top_k_range (time_point overload): the set of results the
\* call can return
top_k_range(db, page, time1, time2, k) ==
  LET r == range(db, page, time1, time2)
  IN IF r.err # "none" THEN {r}
     ELSE {[err |-> "none", val |-> pop_to(s, k)] : s \in std_sort(r.val)}

\* --------------------------------------------------- cereal binary form
Alphabet == DigitChars \cup {Tab, " ", "+", "-", "A", "B", "C", "a", "b", "c",
                             "d", "e", "i", "l", "n", "x"}
CharOf(code) == CHOOSE c \in Alphabet : CharCode(c) = code

RECURSIVE encode_string(_)
encode_string(str) ==
  IF str = <<>> THEN <<>>
  ELSE <<CharCode(Head(str))>> \o encode_string(Tail(str))

\* record::serialize writing the counter as a 32-bit value
save_record_narrow(r) ==
  <<r.time>> \o <<Len(r.page)>> \o encode_string(r.page)
    \o <<0, 0, r.counter[3], r.counter[4]>>

\* record::serialize on an output archive: ar(time, page, counter); a string
\* is written as its size followed by its characters
save_record(r) ==
  <<r.time>> \o <<Len(r.page)>> \o encode_string(r.page) \o r.counter

RECURSIVE save_records(_)
save_records(v) ==
  IF v = <<>> THEN <<>> ELSE save_record(Head(v)) \o save_records(Tail(v))

\* baseline_db::serialize on an output archive: ar(m_db); a vector is
\* written as its size followed by its elements
serialize(db) == <<Len(db)>> \o save_records(db)

RECURSIVE decode_string(_)
decode_string(codes) ==
  IF codes = <<>> THEN <<>>
  ELSE <<CharOf(Head(codes))>> \o decode_string(Tail(codes))

\* record::serialize on an input archive, reading at the head of `bytes`;
\* a read past the end of the stream throws cereal::Exception
load_record(bytes) ==
  IF Len(bytes) < 2 \/ Len(bytes) < 2 + bytes[2] + 4
  THEN [err |-> "IOError", rec |-> empty_record, rest |-> <<>>]
  ELSE LET n == bytes[2]
       IN [err |-> "none",
           rec |-> [time |-> bytes[1],
                    page |-> decode_string(SubSeq(bytes, 3, 2 + n)),
                    counter |-> SubSeq(bytes, 3 + n, 6 + n)],
           rest |-> SubSeq(bytes, 7 + n, Len(bytes))]

\* the element loop of the vector load: the vector has been resized to its
\* new size, so the elements not reached before a failure are empty records
RECURSIVE load_records(_, _)
load_records(bytes, n) ==
  IF n = 0 THEN [err |-> "none", val |-> <<>>]
  ELSE LET r == load_record(bytes)
       IN IF r.err # "none"
          THEN [err |-> r.err, val |-> [i \in 1..n |-> empty_record]]
          ELSE LET t == load_records(r.rest, n - 1)
               IN [err |-> t.err, val |-> <<r.rec>> \o t.val]

\* baseline_db::serialize on an input archive: ar(m_db) reads the size,
\* resizes the vector and loads the elements; when the size itself cannot be
\* read the vector `old` is left as it was
deserialize(old, bytes) ==
  IF bytes = <<>> THEN [err |-> "IOError", val |-> old]
  ELSE load_records(Tail(bytes), Head(bytes))

\* ------------------------------------------------- the (page, time) order
\* the order the specification speaks of, stated on character codes and
\* times without the program's comparison operators
RECURSIVE CodesBefore(_, _)
CodesBefore(a, b) ==
  IF b = <<>> THEN FALSE
  ELSE IF a = <<>> THEN TRUE
  ELSE \/ a[1] < b[1]
       \/ (a[1] = b[1] /\ CodesBefore(Tail(a), Tail(b)))

PageTimeBefore(r, x) ==
  LET rp == [i \in 1..Len(r.page) |-> CharCode(r.page[i])]
      xp == [i \in 1..Len(x.page) |-> CharCode(x.page[i])]
  IN CodesBefore(rp, xp) \/ (r.page = x.page /\ r.time < x.time)

SortedByPageTime(s) ==
  \A i \in 1..Len(s) : \A j \in (i + 1)..Len(s) : ~PageTimeBefore(s[j], s[i])

\* ---------------------------------------------------------------- inputs
T22 == <<"2", "0", "1", "6", "0", "6", "2", "6", "-", "2", "2">>
T23 == <<"2", "0", "1", "6", "0", "6", "2", "6", "-", "2", "3">>
BadTime == <<"b", "a", "d", "-", "l", "i", "n", "e">>

\* the lines a source file is made of
Lines ==
  { T22 \o <<Tab, "A", Tab, "5">>,
    T23 \o <<Tab, "A", Tab, "1", "0">>,
    T23 \o <<Tab, "A", Tab, "7">>,
    T23 \o <<Tab, "B", Tab, "-", "5">>,
    BadTime \o <<Tab, "A">> }

RECURSIVE SeqsUpTo(_, _)
SeqsUpTo(S, n) ==
  IF n = 0 THEN {<<>>}
  ELSE LET shorter == SeqsUpTo(S, n - 1)
       IN shorter \cup {Append(q, x) : q \in shorter, x \in S}

\* the push_back loop of build_index: the records of the lines up to the
\* first one whose constructor throws
RECURSIVE read_lines(_)
read_lines(lines) ==
  IF lines = <<>> THEN [err |-> "none", val |-> <<>>]
  ELSE LET r == record(Head(lines))
       IN IF r.err # "none" THEN [err |-> r.err, val |-> <<>>]
          ELSE LET t == read_lines(Tail(lines))
               IN [err |-> t.err, val |-> <<r.rec>> \o t.val]

\* a source is a file of lines, or a path that cannot be opened
Sources ==
  {[is_open |-> FALSE, lines |-> <<>>]}
    \cup {[is_open |-> TRUE, lines |-> ls] : ls \in SeqsUpTo(Lines, MaxLines)}

\* what the push_back loop makes of each source
pushed_records == [source \in Sources |-> read_lines(source.lines)]

\* the records the source lines stand for
KnownRecords ==
  {record(l).rec : l \in {x \in Lines : record(x).err = "none"}}

Files == {"db.bin"}
QueryTexts == {T22, T23, BadTime}
QueryPages == {<<"A">>, <<"B">>, <<"C">>}
QueryTimes == {string_to_time_point(T22).val, string_to_time_point(T23).val}

\* ------------------------------------------------------------------ state
Init ==
  /\ m_db = <<>>
  /\ fs = [f \in Files |-> <<>>]
  /\ ret = [op |-> "idle"]
  /\ established = FALSE

\* build_index without the std::sort
build_index_unsorted(source) ==
  /\ ret.op = "idle"
  /\ IF ~source.is_open
     THEN /\ m_db' = m_db
          /\ ret' = [op |-> "build_index", source |-> source, err |-> "IOError"]
     ELSE LET r == pushed_records[source]
              pushed == m_db \o r.val
          IN /\ Len(pushed) <= MaxLen
             /\ m_db' = pushed
             /\ ret' = [op |-> "build_index", source |-> source, err |-> r.err]
  /\ established' = (established \/ (ret'.err = "none" /\ SortedByPageTime(m_db')))
  /\ UNCHANGED fs

\* baseline_db::build_index
build_index(source) ==
  /\ ret.op = "idle"
  /\ IF ~source.is_open
     THEN /\ m_db' = m_db
          /\ ret' = [op |-> "build_index", source |-> source, err |-> "IOError"]
     ELSE LET r == pushed_records[source]
              pushed == m_db \o r.val
          IN /\ Len(pushed) <= MaxLen
             /\ IF r.err # "none"
                THEN m_db' = pushed
                ELSE m_db' \in std_sort(pushed)
             /\ ret' = [op |-> "build_index", source |-> source, err |-> r.err]
  /\ established' = (established \/ (ret'.err = "none" /\ SortedByPageTime(m_db')))
  /\ UNCHANGED fs

\* load appending the loaded records to the ones the store holds
load_append(source) ==
  LET r == deserialize(m_db, fs[source])
  IN /\ ret.op = "idle"
     /\ m_db' = (IF r.err = "none" THEN m_db \o r.val ELSE r.val)
     /\ ret' = [op |-> "load", file |-> source, err |-> r.err, old |-> m_db]
     /\ established' = (established \/ (r.err = "none" /\ SortedByPageTime(m_db')))
     /\ UNCHANGED fs

\* load refusing a collection that is not sorted
load_checked(source) ==
  LET r == deserialize(m_db, fs[source])
      corrupt == r.err = "none" /\ ~is_sorted(r.val)
  IN /\ ret.op = "idle"
     /\ m_db' = (IF corrupt THEN m_db ELSE r.val)
     /\ ret' = [op |-> "load", file |-> source,
                err |-> IF corrupt THEN "CorruptState" ELSE r.err, old |-> m_db]
     /\ established' = (established \/ (r.err = "none" /\ SortedByPageTime(m_db')))
     /\ UNCHANGED fs

\* baseline_db::load
load(source) ==
  LET r == deserialize(m_db, fs[source])
  IN /\ ret.op = "idle"
     /\ m_db' = r.val
     /\ ret' = [op |-> "load", file |-> source, err |-> r.err, old |-> m_db]
     /\ established' = (established \/ (r.err = "none" /\ SortedByPageTime(r.val)))
     /\ UNCHANGED fs

\* baseline_db::save_as
save_as(dest) ==
  /\ ret.op = "idle"
  /\ fs' = [fs EXCEPT ![dest] = serialize(m_db)]
  /\ ret' = [op |-> "save_as", file |-> dest]
  /\ UNCHANGED <<m_db, established>>

\* a call of range
Range(page, time1, time2) ==
  LET r == range(m_db, page, time1, time2)
  IN /\ ret.op = "idle"
     /\ ret' = [op |-> "range", page |-> page, time1 |-> time1,
                time2 |-> time2, err |-> r.err, val |-> r.val]
     /\ UNCHANGED <<m_db, fs, established>>

\* a call of top_k_range
TopKRange(page, time1, time2, k) ==
  /\ ret.op = "idle"
  /\ \E r \in top_k_range(m_db, page, time1, time2, k) :
       ret' = [op |-> "top_k_range", page |-> page, time1 |-> time1,
               time2 |-> time2, k |-> k, err |-> r.err, val |-> r.val]
  /\ UNCHANGED <<m_db, fs, established>>

\* a call of range with the times as strings
RangeStr(page, time1, time2) ==
  LET t1 == string_to_time_point(time1)
      t2 == string_to_time_point(time2)
      r == IF t1.err # "none" \/ t2.err # "none"
           THEN [err |-> "ParseError", val |-> <<>>]
           ELSE range(m_db, page, t1.val, t2.val)
  IN /\ ret.op = "idle"
     /\ ret' = [op |-> "range_str", page |-> page, time1 |-> time1,
                time2 |-> time2, err |-> r.err, val |-> r.val]
     /\ UNCHANGED <<m_db, fs, established>>

\* a call of top_k_range with the times as strings
TopKRangeStr(page, time1, time2, k) ==
  LET t1 == string_to_time_point(time1)
      t2 == string_to_time_point(time2)
      rs == IF t1.err # "none" \/ t2.err # "none"
            THEN {[err |-> "ParseError", val |-> <<>>]}
            ELSE top_k_range(m_db, page, t1.val, t2.val, k)
  IN /\ ret.op = "idle"
     /\ \E r \in rs :
          ret' = [op |-> "top_k_range_str", page |-> page, time1 |-> time1,
                  time2 |-> time2, k |-> k, err |-> r.err, val |-> r.val]
     /\ UNCHANGED <<m_db, fs, established>>

\* record::to_string; the time is left as the time_point it prints
to_string(r) ==
  <<"time:", r.time, ",page:", r.page, ",counter:", r.counter, ".">>

\* baseline_db::print: m_db[i] is not bounds-checked, so an i past the end
\* reads whatever lies there, or ends the process
print(i) ==
  /\ ret.op = "idle"
  /\ IF i < Len(m_db)
     THEN ret' = [op |-> "print", i |-> i, err |-> "none",
                  out |-> <<to_string(m_db[i + 1])>>]
     ELSE \/ \E r \in KnownRecords \cup {empty_record} :
               ret' = [op |-> "print", i |-> i, err |-> "none",
                       out |-> <<to_string(r)>>]
          \/ ret' = [op |-> "print", i |-> i, err |-> "crash", out |-> <<>>]
  /\ UNCHANGED <<m_db, fs, established>>

\* baseline_db::print_all
print_all ==
  /\ ret.op = "idle"
  /\ ret' = [op |-> "print_all",
             out |-> [i \in 1..Len(m_db) |-> to_string(m_db[i])]]
  /\ UNCHANGED <<m_db, fs, established>>

\* the call statement ends: the vector returned by value, or the exception
\* caught, is destroyed
drop_result ==
  /\ ret.op # "idle"
  /\ ~(ret.op = "print" /\ ret.err = "crash")
  /\ ret' = [op |-> "idle"]
  /\ UNCHANGED <<m_db, fs, established>>

Next ==
  \/ \E source \in Sources : build_index(source)
  \/ \E f \in Files : load(f)
  \/ \E f \in Files : save_as(f)
  \/ \E page \in QueryPages, time1 \in QueryTimes, time2 \in QueryTimes :
       Range(page, time1, time2)
  \/ \E page \in QueryPages, time1 \in QueryTimes, time2 \in QueryTimes,
        k \in 0..MaxK :
       TopKRange(page, time1, time2, k)
  \/ \E page \in QueryPages, time1 \in QueryTexts, time2 \in QueryTexts :
       RangeStr(page, time1, time2)
  \/ \E page \in QueryPages, time1 \in QueryTexts, time2 \in QueryTexts,
        k \in 0..MaxK :
       TopKRangeStr(page, time1, time2, k)
  \/ \E i \in 0..MaxLen : print(i)
  \/ print_all
  \/ drop_result

Spec == Init /\ [][Next]_vars

\* ------------------------------------- files not written by save_as
\* another program writes a well-formed serialized collection, sorted or not
ExternalWrite(dest, db) ==
  /\ ret.op = "idle"
  /\ fs' = [fs EXCEPT ![dest] = serialize(db)]
  /\ ret' = [op |-> "external_write", file |-> dest]
  /\ UNCHANGED <<m_db, established>>

\* a store that is only ever filled by load, from files of either origin
NextExt ==
  \/ \E f \in Files, db \in SeqsUpTo(KnownRecords, MaxLen) : ExternalWrite(f, db)
  \/ \E f \in Files : load(f)
  \/ \E f \in Files : save_as(f)
  \/ \E page \in QueryPages, time1 \in QueryTimes, time2 \in QueryTimes :
       Range(page, time1, time2)
  \/ drop_result

SpecExt == Init /\ [][NextExt]_vars

\* -------------------------------------------- the record constructor alone
CounterTexts ==
  { <<"5">>, <<"1", "0">>, <<"0">>, <<"-", "5">>, <<"+", "7">>, <<" ", "3">>,
    <<"1", "2", "a", "b", "c">>, <<>>, <<"x">>, <<"a", "b", "c">>, <<"-">>,
    <<"9", "9", "9", "9", "9", "9", "9", "9", "9", "9", "9">> }

\* lines with three fields, and lines whose counter field is missing
ParseLines ==
  {t \o <<Tab>> \o pg \o <<Tab>> \o c :
     t \in {T22, T23, BadTime}, pg \in QueryPages, c \in CounterTexts}
    \cup {t \o <<Tab>> \o pg : t \in {T22, T23, BadTime}, pg \in QueryPages}
    \cup {T22, T23}

\* record r(source_line);
NewRecord(source_line) ==
  /\ ret.op = "idle"
  /\ ret' = [op |-> "record", line |-> source_line,
             result |-> record(source_line)]
  /\ UNCHANGED <<m_db, fs, established>>

NextParse ==
  \/ \E l \in ParseLines : NewRecord(l)
  \/ drop_result

SpecParse == Init /\ [][NextParse]_vars

\* ================================================================ claims
\* the stored records with page P and time in [t1, t2], each as often as it
\* is stored, in the order of the store
Exact(db, P, t1, t2) ==
  SelectSeq(db, LAMBDA r : r.page = P /\ t1 <= r.time /\ r.time <= t2)

Count(s, r) == Cardinality({i \in 1..Len(s) : s[i] = r})
SameMultiset(a, b) ==
  /\ Len(a) = Len(b)
  /\ \A i \in 1..Len(a) : Count(a, a[i]) = Count(b, a[i])

\* C1: on a store sorted by (page, time), range(P, t1, t2) with t1 <= t2
\* raises nothing and returns exactly the stored records with page P and
\* time in [t1, t2], each as often as stored, in (page, time) order; the
\* result is empty for a page that is not stored and for an empty store.
C1_RangeExact ==
  (ret.op = "range" /\ SortedByPageTime(m_db) /\ ret.time1 <= ret.time2)
    => /\ ret.err = "none"
       /\ ret.val = Exact(m_db, ret.page, ret.time1, ret.time2)
       /\ SortedByPageTime(ret.val)
       /\ (\A i \in 1..Len(m_db) : m_db[i].page # ret.page) => ret.val = <<>>

\* a range call on a sorted store that returns some, not all, of the records
C1_Witness ==
  /\ ret.op = "range" /\ SortedByPageTime(m_db) /\ ret.time1 <= ret.time2
  /\ ret.val # <<>>
  /\ Len(ret.val) < Len(m_db)

\* the records the lines of a source stand for, one per line
ParsedOf(lines) == [i \in 1..Len(lines) |-> record(lines[i]).rec]
AllParse(lines) == \A i \in 1..Len(lines) : record(lines[i]).err = "none"

\* C2: a successful build_index on an empty store, from lines that all
\* parse, leaves the store sorted by (page, time) and holding exactly the
\* records of the lines, one per line; what save_as writes of a sorted store
\* loads into a sorted store.
C2_BuildSorted ==
  /\ [][(ret'.op = "build_index" /\ ret'.source.is_open /\ m_db = <<>>
          /\ AllParse(ret'.source.lines))
          => /\ ret'.err = "none"
             /\ SortedByPageTime(m_db')
             /\ SameMultiset(m_db', ParsedOf(ret'.source.lines))]_vars
  /\ [](ret.op = "load" /\ ret.err = "none"
          /\ SortedByPageTime(deserialize(<<>>, fs[ret.file]).val)
          => SortedByPageTime(m_db))

\* a build whose lines were not in order, so that the sort had to act
C2_Witness ==
  /\ ret.op = "build_index" /\ ret.err = "none"
  /\ Len(ret.source.lines) = 2 /\ Len(m_db) = 2
  /\ ~SortedByPageTime(ParsedOf(ret.source.lines))
  /\ SortedByPageTime(m_db)

\* C3: once a build_index or load has completed and left the store sorted,
\* the store is sorted in every later state.
C3_SortedForever == established => SortedByPageTime(m_db)

\* C4: a build_index that fails, on an unparseable line or on a source that
\* cannot be opened, leaves the store exactly as it was before the call, and
\* raises ParseError or IOError respectively.
C4_AllOrNothing ==
  [][ret'.op = "build_index"
       => /\ ~ret'.source.is_open => (ret'.err = "IOError" /\ m_db' = m_db)
          /\ (ret'.source.is_open /\ ~AllParse(ret'.source.lines))
               => (ret'.err = "ParseError" /\ m_db' = m_db)]_vars

\* C5: range and top_k_range with time1 > time2 fail with InvalidArgument,
\* for every page, store content and k, return no records and leave the
\* store unchanged.
C5_MalformedInterval ==
  [][(ret'.op \in {"range", "top_k_range"} /\ ret'.time1 > ret'.time2)
       => /\ ret'.err = "InvalidArgument"
          /\ ret'.val = <<>>
          /\ m_db' = m_db /\ fs' = fs]_vars

\* top_k_range with k = 0 and an inverted interval on a store that holds
\* records of the page
C5_Witness ==
  /\ ret.op = "top_k_range" /\ ret.k = 0 /\ ret.time1 > ret.time2
  /\ ret.err = "InvalidArgument"
  /\ \E i \in 1..Len(m_db) : m_db[i].page = ret.page

\* C6: on a built, sorted store, top_k_range(page, t1, t2, k) with t1 <= t2
\* returns min(k, |range|) records that are a prefix, in order, of what range
\* returns, and the same sequence as range when k >= |range|.
C6_TopKPrefix ==
  (ret.op = "top_k_range" /\ ret.time1 <= ret.time2
     /\ established /\ SortedByPageTime(m_db))
    => LET full == range(m_db, ret.page, ret.time1, ret.time2).val
           n == IF ret.k < Len(full) THEN ret.k ELSE Len(full)
       IN /\ ret.err = "none"
          /\ Len(ret.val) = n
          /\ ret.val = SubSeq(full, 1, n)

\* C7: what save_as writes loads back into the same sequence of records
\* (time, page and counter at every position), so that range answers alike
\* on both; save_as leaves the store unchanged.
C7_RoundTrip ==
  /\ [](ret.op = "save_as"
          => LET l == deserialize(<<>>, fs[ret.file])
             IN /\ l.err = "none"
                /\ l.val = m_db
                /\ \A P \in QueryPages, t1 \in QueryTimes, t2 \in QueryTimes :
                     /\ range(l.val, P, t1, t2) = range(m_db, P, t1, t2)
                     /\ \A k \in 0..MaxK :
                          top_k_range(l.val, P, t1, t2, k)
                            = top_k_range(m_db, P, t1, t2, k))
  /\ [][ret'.op = "save_as" => m_db' = m_db]_vars

\* a save of two records, one of them with a counter above 2^48
C7_Witness ==
  /\ ret.op = "save_as" /\ Len(m_db) = 2
  /\ \E i \in 1..2 : m_db[i].counter[1] > 0

\* C8: after a successful load the store holds exactly the persisted
\* sequence, whatever it held before.
C8_LoadReplaces ==
  (ret.op = "load" /\ ret.err = "none")
    => m_db = deserialize(<<>>, fs[ret.file]).val

\* a load into a store that held other records than the file
C8_Witness ==
  /\ ret.op = "load" /\ ret.err = "none"
  /\ ret.old # <<>> /\ m_db # <<>> /\ ret.old # m_db

\* the counter field of a line: the text after the second tab, if any
RECURSIVE AfterTabs(_, _)
AfterTabs(line, n) ==
  IF n = 0 THEN [present |-> TRUE, text |-> line]
  ELSE IF line = <<>> THEN [present |-> FALSE, text |-> <<>>]
  ELSE AfterTabs(Tail(line), IF Head(line) = Tab THEN n - 1 ELSE n)

ValidCounterField(line) ==
  LET f == AfterTabs(line, 2)
  IN /\ f.present
     /\ f.text # <<>>
     /\ \A i \in 1..Len(f.text) : f.text[i] \in DigitChars

\* C9: constructing a record from a line whose counter field is not a valid
\* non-negative decimal integer fails with a ParseError.
C9_CounterRejected ==
  (ret.op = "record" /\ ~ValidCounterField(ret.line))
    => ret.result.err = "ParseError"

\* C10: load checks no order: a persisted collection that is not sorted
\* loads without error into the store as it is, and range with t1 <= t2 on
\* such a store raises nothing.
C10_LoadUnchecked ==
  /\ (ret.op = "load" /\ fs[ret.file] # <<>>)
       => /\ ret.err = "none"
          /\ serialize(m_db) = fs[ret.file]
  /\ (ret.op = "range" /\ ret.time1 <= ret.time2) => ret.err = "none"

\* a range call on a loaded, unsorted store whose result is not the exact
\* set of matching records
C10_Witness ==
  /\ ret.op = "range" /\ ret.time1 <= ret.time2 /\ ret.err = "none"
  /\ ~SortedByPageTime(m_db)
  /\ \E f \in Files : fs[f] = serialize(m_db)
  /\ ret.val # Exact(m_db, ret.page, ret.time1, ret.time2)

====
